---- MODULE Spec2Model ----
(***************************************************************************)
(* Model of src/app.py: one render pass of the sales dashboard script.     *)
(* A pass reads the uploaded table, checks the column count, binds the     *)
(* stage / value / close-week roles, coerces the value column, derives the *)
(* forecast settings, computes the KPIs, renders one analysis view and     *)
(* builds the rule-based insight list.                                     *)
(*                                                                         *)
(* Text is a sequence of character codes (ASCII), so that lower-casing,    *)
(* substring search, ordering, number parsing and number printing are      *)
(* computed rather than assumed.  Numbers are integers in a fixed unit;    *)
(* a ratio is kept exact as a numerator/denominator pair, so the rounding  *)
(* of float arithmetic is outside the model.                               *)
(*                                                                         *)
(* The table is the one read from an uploaded file.  The built-in sample   *)
(* (50 rows, 5 columns, fixed seed) is one more table of the same kind and *)
(* is larger than the bounds below.                                        *)
(***************************************************************************)
EXTENDS Integers, Sequences, FiniteSets, TLC

VARIABLES pc, uploaded, df, message,
          stage_col, value_col, close_week_col,
          stage_values, default_commit_stages, commit_stages,
          target, large_deal_threshold,
          forecast, gap, coverage,
          analysis_option, slider, late_cutoff, view, insights

vars == <<pc, uploaded, df, message,
          stage_col, value_col, close_week_col,
          stage_values, default_commit_stages, commit_stages,
          target, large_deal_threshold,
          forecast, gap, coverage,
          analysis_option, slider, late_cutoff, view, insights>>

-----------------------------------------------------------------------------
(* Bounds *)

MaxRows == 2

MaxCols == 3

-----------------------------------------------------------------------------
(* Text *)

t_WON    == <<87, 79, 78>>
t_Commit == <<67, 111, 109, 109, 105, 116>>
t_Alpha  == <<65, 108, 112, 104, 97>>
t_beta   == <<98, 101, 116, 97>>
t_x      == <<120>>
t_4      == <<52>>
t_3      == <<51>>
t_2      == <<50>>
t_1      == <<49>>
t_m1     == <<45, 49>>
t_empty  == <<>>
t_commit == <<99, 111, 109, 109, 105, 116>>
t_won    == <<119, 111, 110>>
t_nan    == <<110, 97, 110>>
t_dot0   == <<46, 48>>

\* str.lower() on ASCII text
LowerChar(c) == IF c >= 65 /\ c <= 90 THEN c + 32 ELSE c

Lower(s) == [i \in 1..Len(s) |-> LowerChar(s[i])]

\* the Python test  sub in s
Contains(sub, s) ==
    \E i \in 0..(Len(s) - Len(sub)) : SubSeq(s, i + 1, i + Len(sub)) = sub

\* Python's ordering of str: by code point, a proper prefix first
RECURSIVE StrLess(_, _)
StrLess(a, b) ==
    IF b = <<>> THEN FALSE
    ELSE IF a = <<>> THEN TRUE
    ELSE IF Head(a) # Head(b) THEN Head(a) < Head(b)
    ELSE StrLess(Tail(a), Tail(b))

IsDigit(c) == c >= 48 /\ c <= 57

RECURSIVE DigitsValue(_)
DigitsValue(s) ==
    IF s = <<>> THEN 0
    ELSE 10 * DigitsValue(SubSeq(s, 1, Len(s) - 1)) + (s[Len(s)] - 48)

\* text of an integer literal: optional minus sign, then one or more digits
IsIntText(s) ==
    LET body == IF s # <<>> /\ s[1] = 45 THEN Tail(s) ELSE s
    IN  body # <<>> /\ \A i \in 1..Len(body) : IsDigit(body[i])

IntOfText(s) == IF s[1] = 45 THEN 0 - DigitsValue(Tail(s)) ELSE DigitsValue(s)

RECURSIVE NatText(_)
NatText(n) ==
    IF n < 10 THEN <<48 + n>> ELSE NatText(n \div 10) \o <<48 + (n % 10)>>

\* str() of an integer
IntText(n) == IF n < 0 THEN <<45>> \o NatText(0 - n) ELSE NatText(n)

-----------------------------------------------------------------------------
(* Cells and columns of a DataFrame *)

Num(n)  == [t |-> "num", n |-> n, s |-> <<>>]
Text(s) == [t |-> "str", n |-> 0, s |-> s]
NaN     == [t |-> "nan", n |-> 0, s |-> <<>>]

IsNum(c) == c.t = "num"

\* a frame is a sequence of columns; a column has a dtype and its cells
NumCols(frame) == Len(frame)

NumRows(frame) == IF frame = <<>> THEN 0 ELSE Len(frame[1].cells)

Rows(frame) == 1..NumRows(frame)

\* pd.read_csv: type inference of one column from its text fields
ReadColumn(fields) ==
    IF fields = <<>> THEN [dtype |-> "object", cells |-> <<>>]
    ELSE IF \A i \in 1..Len(fields) : IsIntText(fields[i])
    THEN [dtype |-> "int64",
          cells |-> [i \in 1..Len(fields) |-> Num(IntOfText(fields[i]))]]
    ELSE IF \A i \in 1..Len(fields) : IsIntText(fields[i]) \/ fields[i] = <<>>
    THEN [dtype |-> "float64",
          cells |-> [i \in 1..Len(fields) |->
                        IF fields[i] = <<>> THEN NaN
                        ELSE Num(IntOfText(fields[i]))]]
    ELSE [dtype |-> "object",
          cells |-> [i \in 1..Len(fields) |->
                        IF fields[i] = <<>> THEN NaN ELSE Text(fields[i])]]

\* pd.read_csv of a file with ncols header names and the given records
ReadCsv(ncols, records) ==
    [c \in 1..ncols |->
        ReadColumn([r \in 1..Len(records) |-> records[r][c]])]

\* the fields of a record in a file of ncols columns: the three kinds of
\* field, repeated in that order when the file is wider
Widen(record, ncols) == [c \in 1..ncols |-> record[((c - 1) % Len(record)) + 1]]

\* the records a file can hold: Stage, Deal Value, Close Week
RecordPool ==
    { <<t_WON,    t_4,  t_4>>,
      <<t_Commit, t_1,  t_2>>,
      <<t_Alpha,  t_m1, t_3>>,
      <<t_beta,   t_x,  t_empty>> }

RECURSIVE SeqsUpTo(_, _)
SeqsUpTo(S, n) ==
    IF n = 0 THEN {<<>>}
    ELSE LET shorter == SeqsUpTo(S, n - 1)
         IN  shorter \cup {Append(q, e) : q \in {x \in shorter : Len(x) = n - 1}, e \in S}

Files ==
    { [ncols |-> n, records |-> [r \in 1..Len(q) |-> Widen(q[r], n)]] :
        n \in 1..MaxCols, q \in SeqsUpTo(RecordPool, MaxRows) }

-----------------------------------------------------------------------------
(* Values that stand for "nothing yet" *)

None == 0

NoFrame == <<>>

NoRatio == [num |-> 0, den |-> 0]

NoSlider == [min_value |-> 0, max_value |-> 0, value |-> 0, called |-> FALSE]

NoView == [kind |-> "none", index |-> <<>>, shows_count |-> FALSE, count |-> 0,
           summary |-> {}]

\* a text no cell can hold, for the lists that are not computed yet
NoText == <<-1>>

Unset == <<NoText>>

UnsetChoice == {NoText}

NoInsights == <<>>

Init ==
    /\ pc = "upload"
    /\ uploaded = NoFrame
    /\ df = NoFrame
    /\ message = "none"
    /\ stage_col = None
    /\ value_col = None
    /\ close_week_col = None
    /\ stage_values = Unset
    /\ default_commit_stages = Unset
    /\ commit_stages = UnsetChoice
    /\ target = 0
    /\ large_deal_threshold = 0
    /\ forecast = 0
    /\ gap = 0
    /\ coverage = NoRatio
    /\ analysis_option = "none"
    /\ slider = NoSlider
    /\ late_cutoff = 0
    /\ view = NoView
    /\ insights = NoInsights

-----------------------------------------------------------------------------
(* 1. File upload *)

\* pd.read_csv succeeded: the frame is the parsed table
ReadFile ==
    /\ pc = "upload"
    /\ \E f \in Files :
          /\ df' = ReadCsv(f.ncols, f.records)
          /\ uploaded' = ReadCsv(f.ncols, f.records)
    /\ message' = "uploaded"
    /\ pc' = "column_check"
    /\ UNCHANGED <<stage_col, value_col, close_week_col, stage_values,
                   default_commit_stages, commit_stages, target,
                   large_deal_threshold, forecast, gap, coverage,
                   analysis_option, slider, late_cutoff, view, insights>>

\* pd.read_csv / pd.read_excel raised: st.error, st.stop
ReadFileFails ==
    /\ pc = "upload"
    /\ message' = "could_not_read_file"
    /\ pc' = "stopped"
    /\ UNCHANGED <<uploaded, df, stage_col, value_col, close_week_col,
                   stage_values, default_commit_stages, commit_stages, target,
                   large_deal_threshold, forecast, gap, coverage,
                   analysis_option, slider, late_cutoff, view, insights>>

-----------------------------------------------------------------------------
(* 3. Column mapping *)

MinColumns == 2

\* variant: the check written as  < 1
NotEnoughColumns_OffByOne(frame) == NumCols(frame) < MinColumns - 1

NotEnoughColumns(frame) == NumCols(frame) < MinColumns

\* the defensive check: st.error, st.stop
ColumnCheckFails ==
    /\ pc = "column_check"
    /\ NotEnoughColumns(df)
    /\ message' = "not_enough_columns"
    /\ pc' = "stopped"
    /\ UNCHANGED <<uploaded, df, stage_col, value_col, close_week_col,
                   stage_values, default_commit_stages, commit_stages, target,
                   large_deal_threshold, forecast, gap, coverage,
                   analysis_option, slider, late_cutoff, view, insights>>

\* pd.to_numeric(errors="coerce") on one column: numeric columns pass
\* through, text cells are parsed and a cell that does not parse becomes NaN
ToNumeric(col) ==
    IF col.dtype # "object" THEN col
    ELSE LET parsed == [i \in 1..Len(col.cells) |->
                           IF col.cells[i].t = "str" /\ IsIntText(col.cells[i].s)
                           THEN Num(IntOfText(col.cells[i].s))
                           ELSE NaN]
         IN  [dtype |-> IF \A i \in 1..Len(parsed) : IsNum(parsed[i])
                        THEN "int64" ELSE "float64",
              cells |-> parsed]

\* df[value_col] = pd.to_numeric(df[value_col], errors="coerce")
CoerceValueColumn(frame, vcol) ==
    [c \in 1..Len(frame) |-> IF c = vcol THEN ToNumeric(frame[c]) ELSE frame[c]]

\* the three selectboxes and the coercion of the value column
MapColumns ==
    /\ pc = "column_check"
    /\ ~NotEnoughColumns(df)
    /\ \E s \in 1..NumCols(df), v \in 1..NumCols(df), w \in {None} \cup 1..NumCols(df) :
          /\ stage_col' = s
          /\ value_col' = v
          /\ close_week_col' = w
          /\ df' = CoerceValueColumn(df, v)
    /\ pc' = "settings"
    /\ UNCHANGED <<uploaded, message, stage_values, default_commit_stages,
                   commit_stages, target, large_deal_threshold, forecast, gap,
                   coverage, analysis_option, slider, late_cutoff, view,
                   insights>>

-----------------------------------------------------------------------------
(* 4. Forecast settings *)

\* str() of one cell as Series.astype(str) gives it for the column's dtype
CellStr(dtype, c) ==
    IF c.t = "nan" THEN t_nan
    ELSE IF c.t = "str" THEN c.s
    ELSE IF dtype = "float64" THEN IntText(c.n) \o t_dot0
    ELSE IntText(c.n)

\* df[col].astype(str)
AsTypeStr(col) == [i \in 1..Len(col.cells) |-> CellStr(col.dtype, col.cells[i])]

\* Series.unique() as a set
Unique(strs) == {strs[i] : i \in 1..Len(strs)}

\* sorted() of a set of str
RECURSIVE Sorted(_)
Sorted(S) ==
    IF S = {} THEN <<>>
    ELSE LET least == CHOOSE a \in S : \A b \in S \ {a} : StrLess(a, b)
         IN  <<least>> \o Sorted(S \ {least})

StageValues(frame, scol) == Sorted(Unique(AsTypeStr(frame[scol])))

LooksCommitted(s) == Contains(t_commit, Lower(s)) \/ Contains(t_won, Lower(s))

MentionsCommitted(s) == Contains(t_commit, s) \/ Contains(t_won, s)

\* variant: the guess without .lower()
DefaultCommitStages_CaseSensitive(values) ==
    LET guessed == SelectSeq(values, MentionsCommitted)
    IN  IF guessed = <<>> /\ values # <<>> THEN <<values[1]>> ELSE guessed

DefaultCommitStages(values) ==
    LET guessed == SelectSeq(values, LooksCommitted)
    IN  IF guessed = <<>> /\ values # <<>> THEN <<values[1]>> ELSE guessed

TargetChoices == {-5, 0, 5, 6}

ThresholdChoices == {1, 4}

\* stage list, default guess, multiselect and the two number inputs
ForecastSettings ==
    /\ pc = "settings"
    /\ stage_values' = StageValues(df, stage_col)
    /\ default_commit_stages' = DefaultCommitStages(StageValues(df, stage_col))
    /\ commit_stages' \in SUBSET Unique(StageValues(df, stage_col))
    /\ target' \in TargetChoices
    /\ large_deal_threshold' \in ThresholdChoices
    /\ pc' = "kpi"
    /\ UNCHANGED <<uploaded, df, message, stage_col, value_col, close_week_col,
                   forecast, gap, coverage, analysis_option, slider,
                   late_cutoff, view, insights>>

-----------------------------------------------------------------------------
(* 5. KPI calculations *)

\* Series.isin(values)
IsIn(strs, values) == [i \in 1..Len(strs) |-> strs[i] \in values]

\* Series.sum(): NaN cells are skipped, an empty selection sums to 0
RECURSIVE SumCells(_)
SumCells(cells) ==
    IF cells = <<>> THEN 0
    ELSE (IF IsNum(Head(cells)) THEN Head(cells).n ELSE 0) + SumCells(Tail(cells))

\* df.loc[mask, col]: the cells of col on the rows the mask keeps
RECURSIVE Loc(_, _)
Loc(mask, cells) ==
    IF cells = <<>> THEN <<>>
    ELSE (IF Head(mask) THEN <<Head(cells)>> ELSE <<>>) \o Loc(Tail(mask), Tail(cells))

\* variant: isin on the raw cells, without astype(str)
Forecast_RawIsIn(frame, scol, vcol, commit) ==
    IF commit # {}
    THEN SumCells(Loc([i \in Rows(frame) |->
                          frame[scol].cells[i].t = "str"
                          /\ frame[scol].cells[i].s \in commit],
                      frame[vcol].cells))
    ELSE 0

\* variant: a loop over the commit stages that adds the whole selection on
\* every turn
Forecast_PerStageLoop(frame, scol, vcol, commit) ==
    Cardinality(commit)
      * SumCells(Loc(IsIn(AsTypeStr(frame[scol]), commit), frame[vcol].cells))

Forecast(frame, scol, vcol, commit) ==
    IF commit # {}
    THEN SumCells(Loc(IsIn(AsTypeStr(frame[scol]), commit), frame[vcol].cells))
    ELSE 0

Gap(tgt, fc) == tgt - fc

ZeroDivisionError == [num |-> 1, den |-> 0]

\* a / b
TrueDiv(a, b) == IF b = 0 THEN ZeroDivisionError ELSE [num |-> a, den |-> b]

\* r * k
Times(r, k) == [num |-> r.num * k, den |-> r.den]

\* variant: the guard written as  target >= 0
Coverage_NonNegGuard(fc, tgt) ==
    IF tgt >= 0 THEN Times(TrueDiv(fc, tgt), 100) ELSE [num |-> 0, den |-> 1]

Coverage(fc, tgt) ==
    IF tgt > 0 THEN Times(TrueDiv(fc, tgt), 100) ELSE [num |-> 0, den |-> 1]

ComputeKpis ==
    /\ pc = "kpi"
    /\ forecast' = Forecast(df, stage_col, value_col, commit_stages)
    /\ gap' = Gap(target, Forecast(df, stage_col, value_col, commit_stages))
    /\ coverage' = Coverage(Forecast(df, stage_col, value_col, commit_stages), target)
    /\ pc' = "analysis"
    /\ UNCHANGED <<uploaded, df, message, stage_col, value_col, close_week_col,
                   stage_values, default_commit_stages, commit_stages, target,
                   large_deal_threshold, analysis_option, slider, late_cutoff,
                   view, insights>>

-----------------------------------------------------------------------------
(* 6, 7. Analysis selection and analysis logic *)

AnalysisOptions == {"Pipeline by Stage", "Forecast Risk (Late Deals)",
                    "Large Deal Upside", "Raw Data View"}

\* an uncaught exception ends the script run where it is raised
Crash ==
    /\ pc' = "crashed"
    /\ message' = "exception"

NumericCells(col) == {i \in 1..Len(col.cells) : IsNum(col.cells[i])}

\* Series.min() / Series.max() of a numeric column; NaN cells are skipped
ColMin(col) ==
    CHOOSE m \in {col.cells[i].n : i \in NumericCells(col)} :
        \A i \in NumericCells(col) : m <= col.cells[i].n

ColMax(col) ==
    CHOOSE m \in {col.cells[i].n : i \in NumericCells(col)} :
        \A i \in NumericCells(col) : m >= col.cells[i].n

\* Series >= k: a NaN cell compares False
GreaterEq(col, k) ==
    [i \in 1..Len(col.cells) |-> IsNum(col.cells[i]) /\ col.cells[i].n >= k]

\* the row labels a boolean mask keeps, in frame order
RECURSIVE Keep(_, _)
Keep(mask, i) ==
    IF i > Len(mask) THEN <<>>
    ELSE (IF mask[i] THEN <<i>> ELSE <<>>) \o Keep(mask, i + 1)

\* groupby(stage_col)[value_col].sum(): one group per non-NaN key
StageSummary(frame, scol, vcol) ==
    LET keys == {frame[scol].cells[i] : i \in Rows(frame)} \ {NaN}
    IN  { <<k, SumCells(Loc([i \in Rows(frame) |-> frame[scol].cells[i] = k],
                            frame[vcol].cells))>> : k \in keys }

\* sort key order of sort_values(ascending=False): larger first, NaN last
Higher(a, b) == IsNum(a) /\ (~IsNum(b) \/ a.n > b.n)

\* sort_values(by=value_col, ascending=False): the row-label orders it can
\* give; the default sort is not stable, so equal keys come in either order
SortedByValue(frame, vcol) ==
    LET cells == frame[vcol].cells
        n == NumRows(frame)
    IN  { p \in [1..n -> 1..n] :
            /\ \A i, j \in 1..n : i # j => p[i] # p[j]
            /\ \A i, j \in 1..n : i < j => ~Higher(cells[p[j]], cells[p[i]]) }

PipelineByStage ==
    /\ pc = "analysis"
    /\ analysis_option' = "Pipeline by Stage"
    /\ IF stage_col = value_col
       THEN \* df[[stage_col, value_col]] has the label twice and
            \* sort_values(by=value_col) raises ValueError
            /\ Crash
            /\ view' = [kind |-> "chart", index |-> <<>>, shows_count |-> FALSE,
                        count |-> 0,
                        summary |-> StageSummary(df, stage_col, value_col)]
       ELSE /\ \E order \in SortedByValue(df, value_col) :
                  view' = [kind |-> "pipeline", index |-> order,
                           shows_count |-> FALSE, count |-> 0,
                           summary |-> StageSummary(df, stage_col, value_col)]
            /\ pc' = "insights"
            /\ UNCHANGED message
    /\ UNCHANGED <<uploaded, df, stage_col, value_col, close_week_col,
                   stage_values, default_commit_stages, commit_stages, target,
                   large_deal_threshold, forecast, gap, coverage, slider,
                   late_cutoff, insights>>

\* close week unbound: st.info, no slider, no table
ForecastRiskNotice ==
    /\ pc = "analysis"
    /\ close_week_col = None
    /\ analysis_option' = "Forecast Risk (Late Deals)"
    /\ view' = [kind |-> "notice", index |-> <<>>, shows_count |-> FALSE,
                count |-> 0, summary |-> {}]
    /\ pc' = "insights"
    /\ UNCHANGED <<uploaded, df, message, stage_col, value_col, close_week_col,
                   stage_values, default_commit_stages, commit_stages, target,
                   large_deal_threshold, forecast, gap, coverage, slider,
                   late_cutoff, insights>>

\* int(df[col].min()) and int(df[col].max()) raise: int() of a text cell or
\* of NaN is a ValueError (a text column whose extremes both parse fails at
\* the comparison with the cutoff instead)
SliderArgsRaise(col) == col.dtype = "object" \/ NumericCells(col) = {}

DefaultCutoffBack == 2

\* the arguments the script passes to st.slider, as passed
SliderArgs(col) ==
    [min_value |-> ColMin(col), max_value |-> ColMax(col),
     value |-> ColMax(col) - DefaultCutoffBack, called |-> TRUE]

SliderArgsValid(a) == a.min_value < a.max_value /\ a.min_value <= a.value

\* the two boolean filters of the risk table
\* variant: the week test written as  > late_cutoff
RiskyDeals_StrictlyLater(frame, scol, wcol, commit, cutoff) ==
    LET late == GreaterEq(frame[wcol], cutoff + 1)
        committed == IsIn(AsTypeStr(frame[scol]), commit)
    IN  Keep([i \in Rows(frame) |-> late[i] /\ ~committed[i]], 1)

RiskyDeals(frame, scol, wcol, commit, cutoff) ==
    LET late == GreaterEq(frame[wcol], cutoff)
        committed == IsIn(AsTypeStr(frame[scol]), commit)
    IN  Keep([i \in Rows(frame) |-> late[i] /\ ~committed[i]], 1)

ForecastRiskRaises ==
    /\ pc = "analysis"
    /\ close_week_col # None
    /\ SliderArgsRaise(df[close_week_col])
    /\ analysis_option' = "Forecast Risk (Late Deals)"
    /\ Crash
    /\ UNCHANGED <<uploaded, df, stage_col, value_col, close_week_col,
                   stage_values, default_commit_stages, commit_stages, target,
                   large_deal_threshold, forecast, gap, coverage, slider,
                   late_cutoff, view, insights>>

\* st.slider is library code: handed a default outside [min_value, max_value]
\* or an empty range it either raises or widens the range to hold the default
ForecastRiskSliderRejects ==
    /\ pc = "analysis"
    /\ close_week_col # None
    /\ ~SliderArgsRaise(df[close_week_col])
    /\ ~SliderArgsValid(SliderArgs(df[close_week_col]))
    /\ analysis_option' = "Forecast Risk (Late Deals)"
    /\ slider' = SliderArgs(df[close_week_col])
    /\ Crash
    /\ UNCHANGED <<uploaded, df, stage_col, value_col, close_week_col,
                   stage_values, default_commit_stages, commit_stages, target,
                   large_deal_threshold, forecast, gap, coverage,
                   late_cutoff, view, insights>>

ForecastRisk ==
    /\ pc = "analysis"
    /\ close_week_col # None
    /\ ~SliderArgsRaise(df[close_week_col])
    /\ analysis_option' = "Forecast Risk (Late Deals)"
    /\ slider' = SliderArgs(df[close_week_col])
    /\ LET a == SliderArgs(df[close_week_col])
           lo == IF a.value < a.min_value THEN a.value ELSE a.min_value
       IN  \E k \in lo..a.max_value :
              /\ late_cutoff' = k
              /\ view' = [kind |-> "risk",
                          index |-> RiskyDeals(df, stage_col, close_week_col,
                                               commit_stages, k),
                          shows_count |-> TRUE,
                          count |-> Len(RiskyDeals(df, stage_col, close_week_col,
                                                   commit_stages, k)),
                          summary |-> {}]
    /\ pc' = "insights"
    /\ UNCHANGED <<uploaded, df, message, stage_col, value_col, close_week_col,
                   stage_values, default_commit_stages, commit_stages, target,
                   large_deal_threshold, forecast, gap, coverage, insights>>

BigDeals(frame, vcol, threshold) == Keep(GreaterEq(frame[vcol], threshold), 1)

LargeDealUpside ==
    /\ pc = "analysis"
    /\ analysis_option' = "Large Deal Upside"
    /\ view' = [kind |-> "large",
                index |-> BigDeals(df, value_col, large_deal_threshold),
                shows_count |-> TRUE,
                count |-> Len(BigDeals(df, value_col, large_deal_threshold)),
                summary |-> {}]
    /\ pc' = "insights"
    /\ UNCHANGED <<uploaded, df, message, stage_col, value_col, close_week_col,
                   stage_values, default_commit_stages, commit_stages, target,
                   large_deal_threshold, forecast, gap, coverage, slider,
                   late_cutoff, insights>>

\* st.dataframe(df): every row of the working frame
RawDataView ==
    /\ pc = "analysis"
    /\ analysis_option' = "Raw Data View"
    /\ view' = [kind |-> "raw", index |-> [i \in Rows(df) |-> i],
                shows_count |-> FALSE, count |-> 0, summary |-> {}]
    /\ pc' = "insights"
    /\ UNCHANGED <<uploaded, df, message, stage_col, value_col, close_week_col,
                   stage_values, default_commit_stages, commit_stages, target,
                   large_deal_threshold, forecast, gap, coverage, slider,
                   late_cutoff, insights>>

-----------------------------------------------------------------------------
(* 8. Simple text insights *)

Line(msg, n) == [msg |-> msg, n |-> n]

\* r < k and r >= k for a ratio with a positive denominator
RatioLess(r, k) == r.num < k * r.den

RatioAtLeast(r, k) == r.num >= k * r.den

ThinFunnelBelow == 80

ExceedsFrom == 100

GapRule(g) ==
    IF g > 0 THEN <<Line("gap_remaining", g)>> ELSE <<Line("target_covered", 0)>>

\* variant: the thin-funnel test written as  <= 80
CoverageRule_Inclusive(cov) ==
    IF cov.num <= ThinFunnelBelow * cov.den THEN <<Line("thin_funnel", 0)>>
    ELSE IF RatioAtLeast(cov, ExceedsFrom) THEN <<Line("exceeds_target", 0)>>
    ELSE <<>>

CoverageRule(cov) ==
    IF RatioLess(cov, ThinFunnelBelow) THEN <<Line("thin_funnel", 0)>>
    ELSE IF RatioAtLeast(cov, ExceedsFrom) THEN <<Line("exceeds_target", 0)>>
    ELSE <<>>

LateCutBack == 1

\* rule 3 inside try/except: max() - 1 on a text column is a TypeError that
\* is swallowed; on a column without numbers the comparison with NaN is
\* False on every row
LateDeals(frame, wcol) ==
    IF frame[wcol].dtype = "object" \/ NumericCells(frame[wcol]) = {} THEN <<>>
    ELSE Keep(GreaterEq(frame[wcol], ColMax(frame[wcol]) - LateCutBack), 1)

LateRule(frame, wcol) ==
    IF wcol # None /\ Len(LateDeals(frame, wcol)) > 0
    THEN <<Line("late_deals", Len(LateDeals(frame, wcol)))>>
    ELSE <<>>

BuildInsights ==
    /\ pc = "insights"
    /\ insights' = GapRule(gap) \o CoverageRule(coverage) \o LateRule(df, close_week_col)
    /\ pc' = "done"
    /\ UNCHANGED <<uploaded, df, message, stage_col, value_col, close_week_col,
                   stage_values, default_commit_stages, commit_stages, target,
                   large_deal_threshold, forecast, gap, coverage,
                   analysis_option, slider, late_cutoff, view>>

Next ==
    \/ ReadFile
    \/ ReadFileFails
    \/ ColumnCheckFails
    \/ MapColumns
    \/ ForecastSettings
    \/ ComputeKpis
    \/ PipelineByStage
    \/ ForecastRiskNotice
    \/ ForecastRiskRaises
    \/ ForecastRiskSliderRejects
    \/ ForecastRisk
    \/ LargeDealUpside
    \/ RawDataView
    \/ BuildInsights

Spec == Init /\ [][Next]_vars

-----------------------------------------------------------------------------
(* Properties *)

LoadDone == pc # "upload" /\ message # "could_not_read_file"

MapDone == stage_col # None

SettingsDone == stage_values # Unset

KpiDone == coverage # NoRatio

\* str() of the stage cell of row i in the frame the script reads
StageStr(i) == CellStr(df[stage_col].dtype, df[stage_col].cells[i])

\* the number a cell of the uploaded table coerces to, 0 when it has none
Coerced(c) ==
    IF c.t = "num" THEN c.n
    ELSE IF c.t = "str" /\ IsIntText(c.s) THEN IntOfText(c.s)
    ELSE 0

HasNumber(c) == c.t = "num" \/ (c.t = "str" /\ IsIntText(c.s))

RECURSIVE SumOverRows(_, _)
SumOverRows(R, col) ==
    IF R = {} THEN 0
    ELSE LET i == CHOOSE j \in R : TRUE
         IN  Coerced(col.cells[i]) + SumOverRows(R \ {i}, col)

CommitRows == {i \in Rows(df) : StageStr(i) \in commit_stages}

\* C1: forecast is the sum of the coerced value over exactly the rows whose
\* string-form stage is in commit_stages, a cell that failed coercion adding
\* 0, and it is 0 when commit_stages is empty
C1_ForecastIsCommitSum ==
    KpiDone =>
        /\ forecast = SumOverRows(CommitRows, uploaded[value_col])
        /\ (commit_stages = {} => forecast = 0)

\* C1 witness: of two committed rows one has a value and the value of the
\* other failed coercion
C1_Witness ==
    /\ KpiDone
    /\ forecast # 0
    /\ stage_col # value_col
    /\ \E i \in CommitRows : ~HasNumber(uploaded[value_col].cells[i])

NothingProduced ==
    /\ stage_col = None /\ value_col = None /\ close_week_col = None
    /\ stage_values = Unset /\ commit_stages = UnsetChoice
    /\ coverage = NoRatio
    /\ view = NoView
    /\ insights = NoInsights

\* C2: a table with fewer than 2 columns halts at the column check: no
\* mapping, no KPI, no view and no insight list, and nothing runs after it
C2_TooFewColumnsHalts ==
    (LoadDone /\ NumCols(df) < 2) =>
        /\ pc \in {"column_check", "stopped"}
        /\ NothingProduced
        /\ (pc = "stopped" => message = "not_enough_columns" /\ ~ENABLED Next)

C2_Witness ==
    /\ pc = "stopped"
    /\ message = "not_enough_columns"
    /\ NumCols(df) = 1
    /\ NumRows(df) > 0

\* C3: after a complete pass every cell of the dataset is what was uploaded
\* and the raw data view shows the table as supplied
C3_DatasetNeverMutated ==
    pc = "done" =>
        \A c \in 1..NumCols(uploaded) : \A i \in Rows(uploaded) :
            df[c].cells[i] = uploaded[c].cells[i]

\* C4: coverage is forecast / target * 100 when target > 0 and 0 when
\* target <= 0, and no division by zero is performed
C4_Coverage ==
    KpiDone =>
        /\ coverage # ZeroDivisionError
        /\ coverage.den # 0
        /\ (target > 0 => coverage.num * target = forecast * 100 * coverage.den)
        /\ (target <= 0 => coverage.num = 0)

C4_Witness ==
    /\ KpiDone
    /\ target = 0
    /\ forecast > 0
    /\ coverage.num = 0

WeekNumbers == {df[close_week_col].cells[i].n : i \in NumericCells(df[close_week_col])}

\* C5: the default cutoff offered is max(close_week) - 2 and lies within
\* [min(close_week), max(close_week)]
C5_DefaultCutoffInRange ==
    slider.called =>
        /\ \A w \in WeekNumbers : w <= slider.value + 2
        /\ slider.value + 2 \in WeekNumbers
        /\ \E w \in WeekNumbers : w <= slider.value
        /\ \E w \in WeekNumbers : w >= slider.value

Malformed(col) == col.dtype = "object" \/ \A i \in 1..Len(col.cells) : ~IsNum(col.cells[i])

\* C6: with close_week bound to a malformed column (and stage and value
\* bound to two different columns) the run is never cut short, and a
\* finished run has the KPIs, a view or notice, and an insight list without
\* a rule 3 line
C6_MalformedCloseWeekAbsorbed ==
    (MapDone /\ stage_col # value_col
       /\ close_week_col # None /\ Malformed(df[close_week_col])) =>
        /\ pc # "crashed"
        /\ (pc = "done" =>
               /\ KpiDone
               /\ view.kind # "none"
               /\ \A k \in 1..Len(insights) : insights[k].msg # "late_deals")

Rank(msg) ==
    CASE msg \in {"gap_remaining", "target_covered"} -> 1
      [] msg \in {"thin_funnel", "exceeds_target"} -> 2
      [] OTHER -> 3

Says(msg) == \E k \in 1..Len(insights) : insights[k].msg = msg

\* C7: the list is ordered gap, coverage, late; its first line is the gap
\* message exactly when target - forecast > 0, else the covered message; the
\* thin-funnel line appears exactly when coverage < 80 and the exceeds line
\* exactly when coverage >= 100
C7_InsightOrder ==
    pc = "done" =>
        /\ Len(insights) >= 1
        /\ insights[1].msg =
              IF target - forecast > 0 THEN "gap_remaining" ELSE "target_covered"
        /\ \A j, k \in 1..Len(insights) :
              j < k => Rank(insights[j].msg) < Rank(insights[k].msg)
        /\ Says("thin_funnel") <=> coverage.num < 80 * coverage.den
        /\ Says("exceeds_target") <=> coverage.num >= 100 * coverage.den
        /\ ~(Says("thin_funnel") /\ Says("exceeds_target"))

\* C7 witness: coverage is exactly 80 and the list has no coverage line
C7_Witness ==
    /\ pc = "done"
    /\ coverage.num = 80 * coverage.den
    /\ ~Says("thin_funnel")
    /\ ~Says("exceeds_target")
    /\ insights[1].msg = "gap_remaining"

RiskRows ==
    {i \in Rows(df) :
        /\ df[close_week_col].cells[i].t = "num"
        /\ df[close_week_col].cells[i].n >= late_cutoff
        /\ StageStr(i) \notin commit_stages}

\* C8: the risk view is a notice without table or count when close_week is
\* unbound; otherwise its table is exactly the rows at or after the cutoff
\* whose stage is not committed, in dataset order, and the count is their
\* number
C8_ForecastRiskView ==
    /\ (analysis_option = "Forecast Risk (Late Deals)" /\ close_week_col = None) =>
          /\ view.kind = "notice"
          /\ view.index = <<>>
          /\ ~view.shows_count
          /\ ~slider.called
    /\ (analysis_option = "Forecast Risk (Late Deals)" /\ close_week_col # None
          /\ pc # "crashed") => view.kind = "risk"
    /\ view.kind = "risk" =>
          /\ close_week_col # None
          /\ {view.index[k] : k \in 1..Len(view.index)} = RiskRows
          /\ \A j, k \in 1..Len(view.index) : j < k => view.index[j] < view.index[k]
          /\ view.shows_count
          /\ view.count = Cardinality(RiskRows)

\* C8 witness: a row exactly at the cutoff is listed, a late row is left out
\* because its stage is committed
C8_Witness ==
    /\ view.kind = "risk"
    /\ view.count = 1
    /\ \E i \in Rows(df) : df[close_week_col].cells[i] = Num(late_cutoff)
                           /\ i \in RiskRows
    /\ \E i \in Rows(df) : df[close_week_col].cells[i].t = "num"
                           /\ df[close_week_col].cells[i].n >= late_cutoff
                           /\ StageStr(i) \in commit_stages

DistinctStages == {StageStr(i) : i \in Rows(df)}

HasCommitOrWon(s) ==
    \E a \in 1..Len(s), b \in 1..Len(s) :
        [k \in 1..(b - a + 1) |-> LowerChar(s[a + k - 1])] \in {t_commit, t_won}

Guessed == {default_commit_stages[k] : k \in 1..Len(default_commit_stages)}

\* C9: the default guess is the distinct stage values that contain "commit"
\* or "won" in lower case, ascending; failing any, the smallest distinct
\* value; always a subset of the distinct values, empty only without rows
C9_DefaultGuess ==
    SettingsDone =>
        /\ Guessed =
              IF \E s \in DistinctStages : HasCommitOrWon(s)
              THEN {s \in DistinctStages : HasCommitOrWon(s)}
              ELSE {s \in DistinctStages : \A u \in DistinctStages \ {s} : StrLess(s, u)}
        /\ \A j, k \in 1..Len(default_commit_stages) :
              j < k => StrLess(default_commit_stages[j], default_commit_stages[k])
        /\ Guessed \subseteq DistinctStages
        /\ (default_commit_stages = <<>> <=> NumRows(df) = 0)

\* C9 witness: two matches, one of them only through lower-casing
C9_Witness ==
    /\ SettingsDone
    /\ default_commit_stages = <<t_Commit, t_WON>>

AllRows == Rows(df)

ValueColumnCoercible == \A i \in Rows(uploaded) : HasNumber(uploaded[value_col].cells[i])

AllNonNegative == \A i \in Rows(uploaded) : Coerced(uploaded[value_col].cells[i]) >= 0

\* C10 as stated: with a coercible value column, forecast <= the sum over
\* all rows, and forecast >= 0 when all values are non-negative
C10_ForecastBounded ==
    (KpiDone /\ NumCols(df) >= 2 /\ ValueColumnCoercible) =>
        /\ forecast <= SumOverRows(AllRows, uploaded[value_col])
        /\ (AllNonNegative => forecast >= 0)

\* C10 amended: with a coercible value column whose values are all
\* non-negative, 0 <= forecast <= the sum over all rows
C10_ForecastBoundedNonNegative ==
    (KpiDone /\ NumCols(df) >= 2 /\ ValueColumnCoercible /\ AllNonNegative) =>
        /\ forecast <= SumOverRows(AllRows, uploaded[value_col])
        /\ forecast >= 0

C10_Witness ==
    /\ KpiDone
    /\ ValueColumnCoercible
    /\ AllNonNegative
    /\ forecast > 0
    /\ forecast < SumOverRows(AllRows, uploaded[value_col])

====
